---- MODULE Spec2Model ----
(***************************************************************************)
(* Model of frontend/src/lib/v2/CompareUtils.ts: the scalar-metrics table  *)
(* (getCompareTableProps, getScalarTableData, loadScalarExecutionArtifacts,*)
(* addScalarDataItems) and the ROC curve filter data                       *)
(* (getValidRocCurveArtifactData, getValidArtifacts, getFullArtifactPath,  *)
(* getRocCurveId), and the label lookup metricsTypeToString.               *)
(*                                                                         *)
(* A JavaScript string is a sequence of chunks (TLA+ strings), so that     *)
(* template literals are concatenations: "Run ID #42" is                   *)
(* <<"Run ID #", "4", "2">>.  Metric names (object keys) are TLA+ strings. *)
(* The loops of the two functions read their input arrays once, in order;  *)
(* each loop iteration is one action, and the element it reads is chosen   *)
(* when it is read and recorded in the input variable.                     *)
(***************************************************************************)
EXTENDS Integers, Sequences, FiniteSets, TLC

VARIABLES
    fn,                     \* the exported function being called
    pc,                     \* position in the loops of the call
    scalarMetricsArtifacts, \* RunArtifact[] read so far by getCompareTableProps
    artifactCount,          \* second argument of getCompareTableProps
    xLabels,
    xParentLabels,
    dataMap,                \* own properties of the dataMap object, in insertion order
    artifactIndex,          \* artifactIndex of loadScalarExecutionArtifacts
    runStart,               \* artifactIndex of getScalarTableData (start of the run)
    runName,
    executionText,
    tableProps,             \* value returned by getCompareTableProps
    rocCurveRunArtifacts,   \* RunArtifact[] read so far by getValidRocCurveArtifactData
    validArtifactsNested,   \* result of the nested map() calls, before flatMapDeep
    validLinkedArtifacts,   \* validLinkedArtifacts of the running getValidArtifacts
    fullArtifactPathMap,    \* own properties of fullArtifactPathMap, in insertion order
    rocCurveArtifactData,   \* value returned by getValidRocCurveArtifactData
    metricsType,            \* argument of metricsTypeToString
    label                   \* value returned by metricsTypeToString

vars == <<fn, pc, scalarMetricsArtifacts, artifactCount, xLabels, xParentLabels,
          dataMap, artifactIndex, runStart, runName, executionText, tableProps,
          rocCurveRunArtifacts, validArtifactsNested, validLinkedArtifacts,
          fullArtifactPathMap, rocCurveArtifactData, metricsType, label>>

scalarVars == <<scalarMetricsArtifacts, artifactCount, xLabels, xParentLabels,
                dataMap, artifactIndex, runStart, runName, executionText, tableProps>>

rocVars == <<rocCurveRunArtifacts, validArtifactsNested, validLinkedArtifacts,
             fullArtifactPathMap, rocCurveArtifactData>>

metricsVars == <<metricsType, label>>

----------------------------------------------------------------------------
(* Bounds and input domains *)

\* Number of input elements (runs, executions, linked artifacts) one call reads.
MaxInputs == 5

\* JavaScript undefined, where a string is expected.
Undefined == <<"<undefined>">>

EmptyString == <<>>

\* a || b on string | undefined operands
Truthy(s) == s # Undefined /\ s # EmptyString

OrElse(a, b) == IF Truthy(a) THEN a ELSE b

RunNames == {Undefined, EmptyString, <<"r">>}

ExecutionDisplayNames == {Undefined, <<"e">>}

ArtifactNames == {Undefined, <<"a">>}

\* mlmd Values: kind is the value case, text the decimal digits of a number,
\* the characters of a string, or the members of a struct.
NumberValue(t) == [kind |-> "DOUBLE_VALUE", text |-> t]

StringValue(t) == [kind |-> "STRING_VALUE", text |-> t]

StructValue(t) == [kind |-> "STRUCT_VALUE", text |-> t]

NullValue == [kind |-> "VALUE_NOT_SET", text |-> EmptyString]

Entry(k, v) == [key |-> k, value |-> v]

\* Entry lists of custom-property maps, keys in jspb.Map's sorted key order.
ScalarPropertyMaps ==
    { <<>>,
      <<Entry("acc", NumberValue(<<"0.9">>))>>,
      <<Entry("1", NumberValue(<<"0.5">>)), Entry("acc", NumberValue(<<"0.8">>))>>,
      <<Entry("1", StringValue(<<"x">>))>>,
      <<Entry("acc", NullValue), Entry("display_name", StringValue(<<"foo">>))>>,
      <<Entry("acc", NumberValue(<<"0.9">>)), Entry("constructor", NumberValue(<<"1">>))>> }

ArtifactCounts == {1, 2}

\* ApiRun.id is a string.
RunIds == {<<"4", "2">>, <<"7">>}

\* Execution.getId() and Artifact.getId() are numbers.
ExecutionIds == {1, 12}

ArtifactIds == {3, 23}

RocPropertyMaps ==
    { <<>>,
      <<Entry("confidenceMetrics", NumberValue(<<"0">>))>>,
      <<Entry("confidenceMetrics", StructValue(<<>>))>>,
      <<Entry("confidenceMetrics", StructValue(<<"\"list\":[]">>))>> }

----------------------------------------------------------------------------
(* JavaScript objects used as string-keyed maps *)

\* Properties every plain object inherits from Object.prototype.
ObjectPrototypeKeys ==
    {"constructor", "toString", "valueOf", "hasOwnProperty", "__proto__"}

\* Keys that are canonical array indices, with their numeric value.
ArrayIndexValue == ("0" :> 0) @@ ("1" :> 1) @@ ("2" :> 2) @@ ("10" :> 10)

IsArrayIndex(k) == k \in DOMAIN ArrayIndexValue

HasOwn(obj, k) == \E i \in 1..Len(obj) : obj[i].key = k

OwnIndex(obj, k) == CHOOSE i \in 1..Len(obj) : obj[i].key = k

OwnKeys(obj) == {obj[i].key : i \in 1..Len(obj)}

\* !obj[k] is false for an own entry (an object) and for an inherited member.
IsTruthyMember(obj, k) == HasOwn(obj, k) \/ k \in ObjectPrototypeKeys

RECURSIVE InsertByIndex(_, _)
InsertByIndex(sorted, e) ==
    IF sorted = <<>> THEN <<e>>
    ELSE IF ArrayIndexValue[e.key] < ArrayIndexValue[Head(sorted).key]
         THEN <<e>> \o sorted
         ELSE <<Head(sorted)>> \o InsertByIndex(Tail(sorted), e)

RECURSIVE SortByIndex(_)
SortByIndex(s) ==
    IF s = <<>> THEN <<>> ELSE InsertByIndex(SortByIndex(Tail(s)), Head(s))

IsIndexEntry(e) == IsArrayIndex(e.key)

IsStringEntry(e) == ~IsArrayIndex(e.key)

\* Object.entries: array-index keys ascending, then the others in insertion order.
ObjectEntries(obj) ==
    SortByIndex(SelectSeq(obj, IsIndexEntry)) \o SelectSeq(obj, IsStringEntry)

\* Concatenation of an array of arrays.
RECURSIVE Concat(_)
Concat(ss) == IF ss = <<>> THEN <<>> ELSE Head(ss) \o Concat(Tail(ss))

----------------------------------------------------------------------------
(* Scalar metrics table *)

\* src/mlmd/Utils getMetadataValue: the plain value a Value decodes to, one of
\* number, string, struct, null.
getMetadataValue(value) ==
    CASE value.kind = "DOUBLE_VALUE" -> [type |-> "number", text |-> value.text]
      [] value.kind = "STRING_VALUE" -> [type |-> "string", text |-> value.text]
      [] value.kind = "STRUCT_VALUE" -> [type |-> "struct", text |-> value.text]
      [] value.kind = "VALUE_NOT_SET" -> [type |-> "null", text |-> EmptyString]

\* JSON.stringify of a plain value.
JSONStringify(v) ==
    CASE v.type = "number" -> v.text
      [] v.type = "string" -> <<"\"">> \o v.text \o <<"\"">>
      [] v.type = "struct" -> <<"{">> \o v.text \o <<"}">>
      [] v.type = "null" -> <<"null">>

\* jspb.Map.get
MapHas(entries, k) == \E i \in 1..Len(entries) : entries[i].key = k

MapGet(entries, k) == entries[CHOOSE i \in 1..Len(entries) : entries[i].key = k].value

\* An array of n cells, all equal to cell.
RECURSIVE Fill(_, _)
Fill(n, cell) == IF n <= 0 THEN <<>> ELSE Append(Fill(n - 1, cell), cell)

\* Array(n).fill('')
FilledRowOneShort(n) == Fill(n - 1, EmptyString)

FilledRow(n) == Fill(n, EmptyString)

\* row[index] = cell, index 0-based: assigning past the end leaves holes.
SetCellOneBased(row, index, cell) ==
    IF index <= Len(row)
    THEN [row EXCEPT ![index] = cell]
    ELSE row \o Fill(index - 1 - Len(row), Undefined) \o <<cell>>

SetCell(row, index, cell) ==
    IF index + 1 <= Len(row)
    THEN [row EXCEPT ![index + 1] = cell]
    ELSE row \o Fill(index - Len(row), Undefined) \o <<cell>>

\* if (scalarMetricName === 'display_name') continue;
IsReservedKey(name) == name = "display_name"

\* dataMap[scalarMetricName].dataCount++
DataCountKept(dataCount) == dataCount

DataCountAfter(dataCount) == dataCount + 1

\* One iteration of the loop of addScalarDataItems; threw is the TypeError of
\* dataMap[name].row when dataMap[name] is an inherited member.
AddScalarDataItem(customProperties, acc, entry, index, count) ==
    LET name == entry.key
        created == IF ~IsTruthyMember(acc.dataMap, name)
                   THEN Append(acc.dataMap,
                               [key |-> name, row |-> FilledRow(count), dataCount |-> 0])
                   ELSE acc.dataMap
    IN  IF acc.threw THEN acc
        ELSE IF IsReservedKey(name) THEN acc
        ELSE IF ~HasOwn(created, name) THEN [dataMap |-> created, threw |-> TRUE]
        ELSE LET i == OwnIndex(created, name)
                 cell == JSONStringify(getMetadataValue(MapGet(customProperties, name)))
             IN  [dataMap |->
                     [created EXCEPT ![i].row = SetCell(@, index, cell),
                                     ![i].dataCount = DataCountAfter(@)],
                  threw |-> FALSE]

RECURSIVE AddEntries(_, _, _, _, _)
AddEntries(customProperties, acc, k, index, count) ==
    IF k > Len(customProperties) THEN acc
    ELSE AddEntries(customProperties,
                    AddScalarDataItem(customProperties, acc, customProperties[k], index, count),
                    k + 1, index, count)

addScalarDataItems(customProperties, dm, index, count) ==
    AddEntries(customProperties, [dataMap |-> dm, threw |-> FALSE], 1, index, count)

\* `${executionText} > ${linkedArtifactText}`
XLabel(execText, artifactText) == execText \o <<" > ">> \o artifactText

\* src/mlmd/MlmdUtils getExecutionDisplayName / getArtifactName.
getExecutionDisplayName(execution) == execution.displayName

getArtifactName(linkedArtifact) == linkedArtifact.name

InputSize(runs) ==
    LET ExecSize(ea) == 1 + Len(ea.linkedArtifacts)
        RECURSIVE SumExecs(_)
        SumExecs(eas) == IF eas = <<>> THEN 0
                         ELSE ExecSize(Head(eas)) + SumExecs(Tail(eas))
        RECURSIVE SumRuns(_)
        SumRuns(rs) == IF rs = <<>> THEN 0
                       ELSE 1 + SumExecs(Head(rs).executionArtifacts) + SumRuns(Tail(rs))
    IN  SumRuns(runs)

\* The input grows by a run, by an execution of its last run, by a linked
\* artifact of the last execution of its last run.
WithRun(runs, run) == Append(runs, [run |-> run, executionArtifacts |-> <<>>])

WithExecution(runs, execution) ==
    [runs EXCEPT ![Len(runs)].executionArtifacts =
        Append(@, [execution |-> execution, linkedArtifacts |-> <<>>])]

WithLinkedArtifact(runs, la) ==
    [runs EXCEPT ![Len(runs)].executionArtifacts =
        [@ EXCEPT ![Len(@)].linkedArtifacts = Append(@, la)]]

\* getScalarTableData, head of the loop over the runs.
ScalarNextRun(run) ==
    /\ fn = "getCompareTableProps"
    /\ pc = "run"
    /\ InputSize(scalarMetricsArtifacts) < MaxInputs
    /\ scalarMetricsArtifacts' = WithRun(scalarMetricsArtifacts, run)
    /\ runName' = OrElse(run.name, <<"-">>)
    /\ runStart' = artifactIndex
    /\ pc' = "execution"
    /\ UNCHANGED <<fn, artifactCount, xLabels, xParentLabels, dataMap, artifactIndex,
                   executionText, tableProps, rocVars, metricsVars>>

\* loadScalarExecutionArtifacts, head of the loop over the executions.
ScalarNextExecution(execution) ==
    /\ fn = "getCompareTableProps"
    /\ pc \in {"execution", "artifact"}
    /\ InputSize(scalarMetricsArtifacts) < MaxInputs
    /\ scalarMetricsArtifacts' = WithExecution(scalarMetricsArtifacts, execution)
    /\ executionText' = OrElse(getExecutionDisplayName(execution), <<"-">>)
    /\ pc' = "artifact"
    /\ UNCHANGED <<fn, artifactCount, xLabels, xParentLabels, dataMap, artifactIndex,
                   runStart, runName, tableProps, rocVars, metricsVars>>

\* loadScalarExecutionArtifacts, body of the loop over the linked artifacts.
ScalarNextLinkedArtifact(linkedArtifact) ==
    /\ fn = "getCompareTableProps"
    /\ pc = "artifact"
    /\ InputSize(scalarMetricsArtifacts) < MaxInputs
    /\ scalarMetricsArtifacts' = WithLinkedArtifact(scalarMetricsArtifacts, linkedArtifact)
    /\ LET linkedArtifactText == OrElse(getArtifactName(linkedArtifact), <<"-">>)
           added == addScalarDataItems(linkedArtifact.customProperties, dataMap,
                                       artifactIndex, artifactCount)
       IN  /\ xLabels' = Append(xLabels, XLabel(executionText, linkedArtifactText))
           /\ dataMap' = added.dataMap
           /\ IF added.threw
              THEN pc' = "threw" /\ UNCHANGED artifactIndex
              ELSE pc' = "artifact" /\ artifactIndex' = artifactIndex + 1
    /\ UNCHANGED <<fn, artifactCount, xParentLabels, runStart, runName, executionText,
                   tableProps, rocVars, metricsVars>>

\* colSpan: newArtifactIndex - artifactIndex
ColSpanToEnd(newArtifactIndex, oldArtifactIndex) == newArtifactIndex

ColSpan(newArtifactIndex, oldArtifactIndex) == newArtifactIndex - oldArtifactIndex

\* getScalarTableData, after loadScalarExecutionArtifacts returned.
ScalarEndRun ==
    /\ fn = "getCompareTableProps"
    /\ pc \in {"execution", "artifact"}
    /\ xParentLabels' = Append(xParentLabels,
                               [label |-> runName, colSpan |-> ColSpan(artifactIndex, runStart)])
    /\ runStart' = artifactIndex
    /\ pc' = "run"
    /\ UNCHANGED <<fn, scalarMetricsArtifacts, artifactCount, xLabels, dataMap,
                   artifactIndex, runName, executionText, tableProps, rocVars, metricsVars>>

RECURSIVE InsertByDataCount(_, _)
InsertByDataCount(sorted, e) ==
    IF sorted = <<>> THEN <<e>>
    ELSE IF Head(sorted).dataCount - e.dataCount < 0
         THEN <<e>> \o sorted
         ELSE <<Head(sorted)>> \o InsertByDataCount(Tail(sorted), e)

\* Array.prototype.sort((a, b) => b[1].dataCount - a[1].dataCount), a stable sort.
RECURSIVE SortByDataCount(_)
SortByDataCount(s) ==
    IF s = <<>> THEN <<>>
    ELSE InsertByDataCount(SortByDataCount(SubSeq(s, 1, Len(s) - 1)), s[Len(s)])

\* The loop pushing sortedDataItem[0] to yLabels.
RECURSIVE KeysOf(_)
KeysOf(list) == IF list = <<>> THEN <<>> ELSE <<Head(list).key>> \o KeysOf(Tail(list))

\* The loop pushing sortedDataItem[1].row to rows.
RECURSIVE RowsOf(_)
RowsOf(list) == IF list = <<>> THEN <<>> ELSE <<Head(list).row>> \o RowsOf(Tail(list))

getCompareTableProps(scalarTableData) ==
    LET sortedDataList == SortByDataCount(ObjectEntries(scalarTableData.dataMap))
    IN  [xLabels |-> scalarTableData.xLabels,
         yLabels |-> KeysOf(sortedDataList),
         xParentLabels |-> scalarTableData.xParentLabels,
         rows |-> RowsOf(sortedDataList)]

\* getScalarTableData returns; getCompareTableProps sorts and returns.
ScalarReturn ==
    /\ fn = "getCompareTableProps"
    /\ pc = "run"
    /\ tableProps' = getCompareTableProps(
            [xLabels |-> xLabels, xParentLabels |-> xParentLabels, dataMap |-> dataMap])
    /\ pc' = "done"
    /\ UNCHANGED <<fn, scalarMetricsArtifacts, artifactCount, xLabels, xParentLabels,
                   dataMap, artifactIndex, runStart, runName, executionText, rocVars, metricsVars>>

----------------------------------------------------------------------------
(* ROC curve filter data *)

Digit(d) == <<"0", "1", "2", "3", "4", "5", "6", "7", "8", "9">>[d + 1]

\* Number.prototype.toString of a non-negative integer, and its interpolation
\* in a template literal.
RECURSIVE NumberToString(_)
NumberToString(n) == IF n < 10 THEN <<Digit(n)>> ELSE NumberToString(n \div 10) \o <<Digit(n % 10)>>

getRocCurveIdNoSeparator(linkedArtifact) ==
    NumberToString(linkedArtifact.event.executionId)
        \o NumberToString(linkedArtifact.event.artifactId)

getRocCurveId(linkedArtifact) ==
    NumberToString(linkedArtifact.event.executionId) \o <<"-">>
        \o NumberToString(linkedArtifact.event.artifactId)

UndefinedValue == [kind |-> "undefined", text |-> EmptyString]

\* customProperties.get(key): undefined when the map has no such key.
MapGetOrUndefined(entries, k) == IF MapHas(entries, k) THEN MapGet(entries, k) ELSE UndefinedValue

\* value?.getStructValue(): the struct of a struct-valued Value, else undefined.
GetStructValue(value) == IF value.kind = "STRUCT_VALUE" THEN value ELSE UndefinedValue

\* getValidArtifacts, the test "if (confidenceMetrics)": toJavaScript() of a
\* struct is an object, which is truthy even when it has no members.
HasConfidenceMetricsOfAnyKind(linkedArtifact) ==
    MapHas(linkedArtifact.artifact.customProperties, "confidenceMetrics")

HasConfidenceMetrics(linkedArtifact) ==
    LET customProperties == linkedArtifact.artifact.customProperties
        confidenceMetrics ==
            GetStructValue(MapGetOrUndefined(customProperties, "confidenceMetrics"))
    IN  confidenceMetrics # UndefinedValue

NameId(name, id) == [name |-> name, id |-> id]

getFullArtifactPathDashed(run, execution, linkedArtifact) ==
    [run |-> NameId(OrElse(run.name, <<"-">>), run.id),
     execution |-> NameId(OrElse(getExecutionDisplayName(execution), <<"-">>),
                          NumberToString(execution.id)),
     artifact |-> NameId(OrElse(getArtifactName(linkedArtifact), <<"-">>),
                         NumberToString(linkedArtifact.artifact.id))]

getFullArtifactPath(run, execution, linkedArtifact) ==
    [run |-> NameId(OrElse(run.name, <<"Run ID #">> \o run.id), run.id),
     execution |-> NameId(OrElse(getExecutionDisplayName(execution),
                                 <<"Execution ID #">> \o NumberToString(execution.id)),
                          NumberToString(execution.id)),
     artifact |-> NameId(OrElse(getArtifactName(linkedArtifact),
                                <<"Artifact ID #">> \o NumberToString(linkedArtifact.artifact.id)),
                         NumberToString(linkedArtifact.artifact.id))]

\* obj[k] = v
ObjectSet(obj, k, v) ==
    IF HasOwn(obj, k) THEN [obj EXCEPT ![OwnIndex(obj, k)].value = v]
    ELSE Append(obj, [key |-> k, value |-> v])

ObjectGet(obj, k) == obj[OwnIndex(obj, k)].value

RECURSIVE SavePaths(_, _, _, _)
SavePaths(map, run, execution, validArtifacts) ==
    IF validArtifacts = <<>> THEN map
    ELSE SavePaths(ObjectSet(map, getRocCurveId(Head(validArtifacts)),
                             getFullArtifactPath(run, execution, Head(validArtifacts))),
                   run, execution, Tail(validArtifacts))

\* lodash flatMapDeep of an array of arrays of arrays of linked artifacts.
RECURSIVE flatMapDeep(_)
flatMapDeep(nested) ==
    IF nested = <<>> THEN <<>> ELSE Concat(Head(nested)) \o flatMapDeep(Tail(nested))

CurrentRun(runs) == runs[Len(runs)]

CurrentExecutionArtifact(runs) ==
    CurrentRun(runs).executionArtifacts[Len(CurrentRun(runs).executionArtifacts)]

RECURSIVE AllExecutionArtifacts(_)
AllExecutionArtifacts(runs) ==
    IF runs = <<>> THEN <<>>
    ELSE Head(runs).executionArtifacts \o AllExecutionArtifacts(Tail(runs))

\* getValidRocCurveArtifactData, the outer map() reads the next run.  A run is
\* listed once.
RocNextRun(run) ==
    /\ fn = "getValidRocCurveArtifactData"
    /\ pc = "run"
    /\ InputSize(rocCurveRunArtifacts) < MaxInputs
    /\ \A i \in 1..Len(rocCurveRunArtifacts) : rocCurveRunArtifacts[i].run.id # run.id
    /\ rocCurveRunArtifacts' = WithRun(rocCurveRunArtifacts, run)
    /\ validArtifactsNested' = Append(validArtifactsNested, <<>>)
    /\ UNCHANGED <<fn, pc, validLinkedArtifacts, fullArtifactPathMap,
                   rocCurveArtifactData, scalarVars, metricsVars>>

\* The inner map() reads the next execution of the run and calls getValidArtifacts.
\* An execution belongs to one run and is listed once.
RocNextExecution(execution) ==
    /\ fn = "getValidRocCurveArtifactData"
    /\ pc = "run"
    /\ rocCurveRunArtifacts # <<>>
    /\ InputSize(rocCurveRunArtifacts) < MaxInputs
    /\ \A i \in 1..Len(AllExecutionArtifacts(rocCurveRunArtifacts)) :
          AllExecutionArtifacts(rocCurveRunArtifacts)[i].execution.id # execution.id
    /\ rocCurveRunArtifacts' = WithExecution(rocCurveRunArtifacts, execution)
    /\ validLinkedArtifacts' = <<>>
    /\ pc' = "artifact"
    /\ UNCHANGED <<fn, validArtifactsNested, fullArtifactPathMap,
                   rocCurveArtifactData, scalarVars, metricsVars>>

\* getValidArtifacts, body of the forEach.  The event of a linked artifact links
\* the execution to the artifact, and an execution links an artifact once.
RocNextLinkedArtifact(artifact, name) ==
    LET ea == CurrentExecutionArtifact(rocCurveRunArtifacts)
        linkedArtifact ==
            [artifact |-> artifact,
             event |-> [executionId |-> ea.execution.id, artifactId |-> artifact.id],
             name |-> name]
    IN  /\ fn = "getValidRocCurveArtifactData"
        /\ pc = "artifact"
        /\ InputSize(rocCurveRunArtifacts) < MaxInputs
        /\ \A i \in 1..Len(ea.linkedArtifacts) :
              ea.linkedArtifacts[i].artifact.id # artifact.id
        /\ rocCurveRunArtifacts' = WithLinkedArtifact(rocCurveRunArtifacts, linkedArtifact)
        /\ validLinkedArtifacts' =
              IF HasConfidenceMetrics(linkedArtifact)
              THEN Append(validLinkedArtifacts, linkedArtifact)
              ELSE validLinkedArtifacts
        /\ UNCHANGED <<fn, pc, validArtifactsNested, fullArtifactPathMap,
                       rocCurveArtifactData, scalarVars, metricsVars>>

\* getValidArtifacts returns; the callback saves the paths and returns validArtifacts.
RocEndExecution ==
    /\ fn = "getValidRocCurveArtifactData"
    /\ pc = "artifact"
    /\ fullArtifactPathMap' =
          SavePaths(fullArtifactPathMap, CurrentRun(rocCurveRunArtifacts).run,
                    CurrentExecutionArtifact(rocCurveRunArtifacts).execution,
                    validLinkedArtifacts)
    /\ validArtifactsNested' =
          [validArtifactsNested EXCEPT ![Len(validArtifactsNested)] =
              Append(@, validLinkedArtifacts)]
    /\ pc' = "run"
    /\ UNCHANGED <<fn, rocCurveRunArtifacts, validLinkedArtifacts,
                   rocCurveArtifactData, scalarVars, metricsVars>>

\* flatMapDeep and the return of getValidRocCurveArtifactData.
RocReturn ==
    /\ fn = "getValidRocCurveArtifactData"
    /\ pc = "run"
    /\ rocCurveArtifactData' =
          [validLinkedArtifacts |-> flatMapDeep(validArtifactsNested),
           fullArtifactPathMap |-> fullArtifactPathMap]
    /\ pc' = "done"
    /\ UNCHANGED <<fn, rocCurveRunArtifacts, validArtifactsNested, validLinkedArtifacts,
                   fullArtifactPathMap, scalarVars, metricsVars>>

----------------------------------------------------------------------------
(* metricsTypeToString *)

\* Number of integers tried on each side of the MetricsType values.
MaxOutside == 3

\* A JavaScript value: its typeof, and what it holds if it is a number (number)
\* or a string (text); the field that does not apply is 0 or "".
JSNumber(n) == [type |-> "number", number |-> n, text |-> ""]

JSString(s) == [type |-> "string", number |-> 0, text |-> s]

JSUndefined == [type |-> "undefined", number |-> 0, text |-> ""]

\* a === b
StrictEquals(a, b) == a.type = b.type /\ a.number = b.number /\ a.text = b.text

\* export enum MetricsType: a numeric enum, numbered from 0 in declaration order.
SCALAR_METRICS == 0

CONFUSION_MATRIX == 1

ROC_CURVE == 2

HTML == 3

MARKDOWN == 4

MetricsType == {SCALAR_METRICS, CONFUSION_MATRIX, ROC_CURVE, HTML, MARKDOWN}

\* The reverse mapping of a numeric enum, MetricsType[3] === 'HTML': the member
\* names are strings a caller can hold, and no MetricsType value.
MetricsTypeNames == {"SCALAR_METRICS", "CONFUSION_MATRIX", "ROC_CURVE", "HTML", "MARKDOWN"}

\* The values a call is made with: the enum, the integers around it, and values
\* that are no number (the parameter type is not checked at run time).
MetricsTypeInputs ==
    {JSNumber(n) : n \in (SCALAR_METRICS - MaxOutside)..(MARKDOWN + MaxOutside)}
        \cup {JSString(s) : s \in MetricsTypeNames \cup {"0", "4", ""}}
        \cup {JSUndefined}

\* switch (metricsType) without its default clause: control leaves the function
\* and the call evaluates to undefined.
metricsTypeToStringNoDefault(value) ==
    IF StrictEquals(value, JSNumber(SCALAR_METRICS)) THEN <<"Scalar Metrics">>
    ELSE IF StrictEquals(value, JSNumber(CONFUSION_MATRIX)) THEN <<"Confusion Matrix">>
    ELSE IF StrictEquals(value, JSNumber(ROC_CURVE)) THEN <<"ROC Curve">>
    ELSE IF StrictEquals(value, JSNumber(HTML)) THEN <<"HTML">>
    ELSE IF StrictEquals(value, JSNumber(MARKDOWN)) THEN <<"Markdown">>
    ELSE Undefined

\* switch compares with ===, case by case in source order; default: return ''.
metricsTypeToString(value) ==
    IF StrictEquals(value, JSNumber(SCALAR_METRICS)) THEN <<"Scalar Metrics">>
    ELSE IF StrictEquals(value, JSNumber(CONFUSION_MATRIX)) THEN <<"Confusion Matrix">>
    ELSE IF StrictEquals(value, JSNumber(ROC_CURVE)) THEN <<"ROC Curve">>
    ELSE IF StrictEquals(value, JSNumber(HTML)) THEN <<"HTML">>
    ELSE IF StrictEquals(value, JSNumber(MARKDOWN)) THEN <<"Markdown">>
    ELSE EmptyString

\* A call of metricsTypeToString with the argument value.
MetricsTypeToStringCall(value) ==
    /\ fn = "metricsTypeToString"
    /\ pc = "call"
    /\ metricsType' = value
    /\ label' = metricsTypeToString(value)
    /\ pc' = "done"
    /\ UNCHANGED <<fn, scalarVars, rocVars>>

----------------------------------------------------------------------------

NoTableProps == [xLabels |-> <<>>, yLabels |-> <<>>, xParentLabels |-> <<>>, rows |-> <<>>]

NoRocData == [validLinkedArtifacts |-> <<>>, fullArtifactPathMap |-> <<>>]

Init ==
    /\ fn \in {"getCompareTableProps", "getValidRocCurveArtifactData", "metricsTypeToString"}
    /\ pc = IF fn = "metricsTypeToString" THEN "call" ELSE "run"
    /\ scalarMetricsArtifacts = <<>>
    /\ artifactCount \in (IF fn = "getCompareTableProps" THEN ArtifactCounts ELSE {0})
    /\ xLabels = <<>>
    /\ xParentLabels = <<>>
    /\ dataMap = <<>>
    /\ artifactIndex = 0
    /\ runStart = 0
    /\ runName = Undefined
    /\ executionText = Undefined
    /\ tableProps = NoTableProps
    /\ rocCurveRunArtifacts = <<>>
    /\ validArtifactsNested = <<>>
    /\ validLinkedArtifacts = <<>>
    /\ fullArtifactPathMap = <<>>
    /\ rocCurveArtifactData = NoRocData
    /\ metricsType = JSUndefined
    /\ label = Undefined

Next ==
    \/ \E name \in RunNames : ScalarNextRun([name |-> name])
    \/ \E dn \in ExecutionDisplayNames : ScalarNextExecution([displayName |-> dn])
    \/ \E name \in ArtifactNames, props \in ScalarPropertyMaps :
          ScalarNextLinkedArtifact([name |-> name, customProperties |-> props])
    \/ ScalarEndRun
    \/ ScalarReturn
    \/ \E name \in RunNames, id \in RunIds : RocNextRun([name |-> name, id |-> id])
    \/ \E id \in ExecutionIds, dn \in ExecutionDisplayNames :
          RocNextExecution([id |-> id, displayName |-> dn])
    \/ \E id \in ArtifactIds, props \in RocPropertyMaps, name \in ArtifactNames :
          RocNextLinkedArtifact([id |-> id, customProperties |-> props], name)
    \/ RocEndExecution
    \/ RocReturn
    \/ \E value \in MetricsTypeInputs : MetricsTypeToStringCall(value)

Spec == Init /\ [][Next]_vars

----------------------------------------------------------------------------
(* The input of a call, flattened in traversal order *)

LinksOfExecution(r, run, ea) ==
    [k \in 1..Len(ea.linkedArtifacts) |->
        [runIndex |-> r, run |-> run, execution |-> ea.execution,
         linkedArtifact |-> ea.linkedArtifacts[k]]]

LinksOfRun(r, ra) ==
    Concat([j \in 1..Len(ra.executionArtifacts) |->
                LinksOfExecution(r, ra.run, ra.executionArtifacts[j])])

\* One record per linked artifact: runs in input order, then executions, then
\* linked artifacts.  Links(runs)[i + 1] is artifact i.
Links(runs) == Concat([r \in 1..Len(runs) |-> LinksOfRun(r, runs[r])])

\* The custom properties of artifact i.
PropertiesOf(links, i) == links[i + 1].linkedArtifact.customProperties

ScalarReturned == fn = "getCompareTableProps" /\ pc = "done"

RECURSIVE SumColSpan(_)
SumColSpan(labels) ==
    IF labels = <<>> THEN 0 ELSE Head(labels).colSpan + SumColSpan(Tail(labels))

\* row[i] of a JavaScript array, i 0-based: undefined for a hole or past the end.
CellAt(row, i) == IF i + 1 <= Len(row) THEN row[i + 1] ELSE Undefined

Max(a, b) == IF a > b THEN a ELSE b

\* The artifacts that carry custom property m.
Carriers(links, m) == {i \in 0..(Len(links) - 1) : MapHas(PropertiesOf(links, i), m)}

LastCarrier(links, m) ==
    LET carriers == Carriers(links, m)
    IN  CHOOSE i \in carriers : \A j \in carriers : j <= i

FirstCarrier(links, m) ==
    LET carriers == Carriers(links, m)
    IN  CHOOSE i \in carriers : \A j \in carriers : i <= j

\* C1 as stated: the colSpans sum to xLabels.length, which is the number of
\* linked artifacts of the input, which is the length of every row of dataMap,
\* whatever artifactCount the call was given.
C1_AllLengthsEqual ==
    ScalarReturned =>
        LET links == Links(scalarMetricsArtifacts)
        IN  /\ SumColSpan(xParentLabels) = Len(xLabels)
            /\ Len(xLabels) = Len(links)
            /\ \A k \in 1..Len(dataMap) : Len(dataMap[k].row) = Len(links)

\* C1 amended: the colSpans sum to xLabels.length, which is the number of
\* linked artifacts; a row has length max(artifactCount, 1 + index of the last
\* artifact carrying its metric), so every row has the length of xLabels when
\* artifactCount is the number of linked artifacts.
C1_LengthsWithArtifactCount ==
    ScalarReturned =>
        LET links == Links(scalarMetricsArtifacts)
        IN  /\ SumColSpan(xParentLabels) = Len(xLabels)
            /\ Len(xLabels) = Len(links)
            /\ \A k \in 1..Len(dataMap) :
                  Len(dataMap[k].row) =
                      Max(artifactCount, LastCarrier(links, dataMap[k].key) + 1)
            /\ artifactCount = Len(links) =>
                  \A k \in 1..Len(dataMap) : Len(dataMap[k].row) = Len(xLabels)

C1_Witness ==
    /\ ScalarReturned
    /\ artifactCount = Len(Links(scalarMetricsArtifacts))
    /\ Len(xLabels) = 2
    /\ Len(xParentLabels) = 2
    /\ Len(dataMap) = 2

\* Position of the first occurrence of metric m in the traversal of the input:
\* the first artifact carrying it, then its place in that artifact's entry list.
FirstSeen(links, m) ==
    LET first == FirstCarrier(links, m)
        entries == PropertiesOf(links, first)
    IN  <<first, CHOOSE k \in 1..Len(entries) : entries[k].key = m>>

SeenBefore(links, m, n) ==
    LET a == FirstSeen(links, m)
        b == FirstSeen(links, n)
    IN  a[1] < b[1] \/ (a[1] = b[1] /\ a[2] < b[2])

DataCountOf(m) == dataMap[OwnIndex(dataMap, m)].dataCount

\* C2: yLabels is a permutation of the metric names of dataMap, ordered by
\* dataCount descending; metrics of equal dataCount stand in the order in which
\* they were first encountered; rows[i] is the row of yLabels[i].  Stated for
\* the calls whose artifactCount is the number of linked artifacts.
C2_SortedByCountThenFirstSeen ==
    ScalarReturned =>
        LET links == Links(scalarMetricsArtifacts)
            yLabels == tableProps.yLabels
        IN  artifactCount = Len(links) =>
            /\ Len(yLabels) = Len(dataMap)
            /\ {yLabels[i] : i \in 1..Len(yLabels)} = OwnKeys(dataMap)
            /\ Len(tableProps.rows) = Len(yLabels)
            /\ \A i \in 1..Len(yLabels) :
                  tableProps.rows[i] = dataMap[OwnIndex(dataMap, yLabels[i])].row
            /\ \A i, j \in 1..Len(yLabels) :
                  i < j =>
                      \/ DataCountOf(yLabels[i]) > DataCountOf(yLabels[j])
                      \/ /\ DataCountOf(yLabels[i]) = DataCountOf(yLabels[j])
                         /\ SeenBefore(links, yLabels[i], yLabels[j])

\* The label of an artifact: its execution's display name or '-', ' > ', its own
\* name or '-'.
LabelOf(link) ==
    LET executionName == link.execution.displayName
        artifactName == link.linkedArtifact.name
    IN  (IF executionName \in {Undefined, EmptyString} THEN <<"-">> ELSE executionName)
            \o <<" > ">>
            \o (IF artifactName \in {Undefined, EmptyString} THEN <<"-">> ELSE artifactName)

\* The JSON text of the value of property m of an artifact that has it.
JSONTextOf(entries, m) == JSONStringify(getMetadataValue(MapGet(entries, m)))

\* C3 as stated: xLabels[i] is the label of artifact i, and the cell of metric m
\* in column i is the JSON text of artifact i's value of m when it has one and
\* the empty string otherwise.
C3_CellsAsStated ==
    ScalarReturned =>
        LET links == Links(scalarMetricsArtifacts)
        IN  /\ Len(xLabels) = Len(links)
            /\ \A i \in 0..(Len(links) - 1) :
                  /\ xLabels[i + 1] = LabelOf(links[i + 1])
                  /\ \A k \in 1..Len(dataMap) :
                        CellAt(dataMap[k].row, i) =
                            IF MapHas(PropertiesOf(links, i), dataMap[k].key)
                            THEN JSONTextOf(PropertiesOf(links, i), dataMap[k].key)
                            ELSE EmptyString

\* C3 amended: as stated for the columns i < artifactCount; in a column
\* i >= artifactCount the cell of a metric that artifact i lacks was never
\* filled and is undefined (a hole of the row, or past its end).
C3_CellsWithinArtifactCount ==
    ScalarReturned =>
        LET links == Links(scalarMetricsArtifacts)
        IN  /\ Len(xLabels) = Len(links)
            /\ \A i \in 0..(Len(links) - 1) :
                  /\ xLabels[i + 1] = LabelOf(links[i + 1])
                  /\ \A k \in 1..Len(dataMap) :
                        CellAt(dataMap[k].row, i) =
                            IF MapHas(PropertiesOf(links, i), dataMap[k].key)
                            THEN JSONTextOf(PropertiesOf(links, i), dataMap[k].key)
                            ELSE IF i < artifactCount THEN EmptyString ELSE Undefined

\* The example of the claim, with the metric "1" for f1: artifacts {acc: 0.9}
\* and {acc: 0.8, 1: 0.5} of one run and one execution.
C3_Witness ==
    /\ ScalarReturned
    /\ artifactCount = 2
    /\ Len(scalarMetricsArtifacts) = 1
    /\ LET links == Links(scalarMetricsArtifacts)
       IN  /\ Len(links) = 2
           /\ PropertiesOf(links, 0) = <<Entry("acc", NumberValue(<<"0.9">>))>>
           /\ PropertiesOf(links, 1) = <<Entry("1", NumberValue(<<"0.5">>)),
                                         Entry("acc", NumberValue(<<"0.8">>))>>
    /\ tableProps.yLabels = <<"acc", "1">>
    /\ tableProps.rows = << <<(<<"0.9">>), (<<"0.8">>)>>, <<EmptyString, (<<"0.5">>)>> >>
    /\ xLabels[1] # xLabels[2]

IsNonEmptyCell(cell) == cell # EmptyString /\ cell # Undefined

\* C4: at every point of the aggregation and in its result, the dataCount of
\* every metric of dataMap is the number of non-empty cells of its row, and is
\* at least 1.
C4_DataCountIsNonEmptyCells ==
    fn = "getCompareTableProps" =>
        \A k \in 1..Len(dataMap) :
            /\ dataMap[k].dataCount =
                  Cardinality({i \in 1..Len(dataMap[k].row) : IsNonEmptyCell(dataMap[k].row[i])})
            /\ dataMap[k].dataCount >= 1

C4_Witness ==
    /\ fn = "getCompareTableProps"
    /\ pc = "artifact"
    /\ \E k \in 1..Len(dataMap) :
          /\ dataMap[k].dataCount = 2
          /\ \E i \in 1..Len(dataMap[k].row) : dataMap[k].row[i] = EmptyString

ArtifactsOfRun(links, r) == Cardinality({i \in 1..Len(links) : links[i].runIndex = r})

\* C5: one xParentLabel per input run, in input order; its label is the run's
\* name, or '-' when the name is missing or empty; its colSpan is the number of
\* linked artifacts of the run, 0 for a run without artifacts.
C5_OneParentLabelPerRun ==
    ScalarReturned =>
        LET links == Links(scalarMetricsArtifacts)
        IN  /\ Len(tableProps.xParentLabels) = Len(scalarMetricsArtifacts)
            /\ \A r \in 1..Len(scalarMetricsArtifacts) :
                  LET name == scalarMetricsArtifacts[r].run.name
                  IN  /\ tableProps.xParentLabels[r].label =
                            IF name \in {Undefined, EmptyString} THEN <<"-">> ELSE name
                      /\ tableProps.xParentLabels[r].colSpan = ArtifactsOfRun(links, r)

C5_Witness ==
    /\ ScalarReturned
    /\ Len(scalarMetricsArtifacts) = 2
    /\ tableProps.xParentLabels[1] = [label |-> <<"r">>, colSpan |-> 2]
    /\ tableProps.xParentLabels[2] = [label |-> <<"-">>, colSpan |-> 0]
    /\ scalarMetricsArtifacts[2].run.name = EmptyString

IsMetricEntry(entry) == entry.key # "display_name"

\* The aggregation of the artifacts from..Len(links) without their display_name
\* properties.
RECURSIVE AggregateWithoutDisplayName(_, _, _)
AggregateWithoutDisplayName(links, from, dm) ==
    IF from > Len(links) THEN dm
    ELSE AggregateWithoutDisplayName(
            links, from + 1,
            addScalarDataItems(SelectSeq(links[from].linkedArtifact.customProperties,
                                         IsMetricEntry),
                               dm, from - 1, artifactCount).dataMap)

NamesOnArtifacts(links) ==
    UNION {{links[i].linkedArtifact.customProperties[k].key :
                k \in 1..Len(links[i].linkedArtifact.customProperties)} :
              i \in 1..Len(links)}

\* C6: display_name is never a key of dataMap and never in yLabels; its
\* presence changes no row and no dataCount (dataMap is what the same artifacts
\* give without their display_name properties); once the call has ended, every
\* other custom-property name on an artifact it read is a key of dataMap.
C6_DisplayNameOnlyIsNoMetric ==
    /\ \A k \in 1..Len(dataMap) : dataMap[k].key # "display_name"
    /\ ScalarReturned =>
          LET links == Links(scalarMetricsArtifacts)
          IN  /\ \A i \in 1..Len(tableProps.yLabels) : tableProps.yLabels[i] # "display_name"
              /\ dataMap = AggregateWithoutDisplayName(links, 1, <<>>)
    /\ (fn = "getCompareTableProps" /\ pc \in {"done", "threw"}) =>
          NamesOnArtifacts(Links(scalarMetricsArtifacts)) \ {"display_name"}
              \subseteq OwnKeys(dataMap)

RocReturned == fn = "getValidRocCurveArtifactData" /\ pc = "done"

LinkedArtifactsOf(links) == [i \in 1..Len(links) |-> links[i].linkedArtifact]

ConfidenceMetricsOf(linkedArtifact) ==
    MapGet(linkedArtifact.artifact.customProperties, "confidenceMetrics")

HasProperty(linkedArtifact) ==
    MapHas(linkedArtifact.artifact.customProperties, "confidenceMetrics")

DecodesNonNull(linkedArtifact) ==
    /\ HasProperty(linkedArtifact)
    /\ getMetadataValue(ConfidenceMetricsOf(linkedArtifact)).type # "null"

HoldsStruct(linkedArtifact) ==
    HasProperty(linkedArtifact) /\ ConfidenceMetricsOf(linkedArtifact).kind = "STRUCT_VALUE"

\* C7 as stated: validLinkedArtifacts is the subsequence, in input order, of the
\* linked artifacts whose confidenceMetrics property exists and decodes to a
\* non-null value, a value 0 included.
C7_ValidIffNonNull ==
    RocReturned =>
        rocCurveArtifactData.validLinkedArtifacts =
            SelectSeq(LinkedArtifactsOf(Links(rocCurveRunArtifacts)), DecodesNonNull)

\* C7 amended: validLinkedArtifacts is the subsequence, in input order, of the
\* linked artifacts whose confidenceMetrics property exists and holds a struct
\* (an empty struct included); an artifact lacking the property, or holding a
\* value of another kind such as the number 0, is excluded.
C7_ValidIffStruct ==
    RocReturned =>
        rocCurveArtifactData.validLinkedArtifacts =
            SelectSeq(LinkedArtifactsOf(Links(rocCurveRunArtifacts)), HoldsStruct)

C7_Witness ==
    /\ RocReturned
    /\ LET all == LinkedArtifactsOf(Links(rocCurveRunArtifacts))
       IN  /\ Len(all) = 2
           /\ ~HasProperty(all[1])
           /\ HasProperty(all[2])
           /\ ConfidenceMetricsOf(all[2]) = StructValue(EmptyString)
           /\ rocCurveArtifactData.validLinkedArtifacts = <<all[2]>>

\* Decimal text of the execution and artifact identifiers of the inputs.
IdText == (1 :> <<"1">>) @@ (12 :> <<"1", "2">>) @@ (3 :> <<"3">>) @@ (23 :> <<"2", "3">>)

NameOrTypeAndId(displayName, type, id) ==
    IF displayName \in {Undefined, EmptyString} THEN <<type>> \o id ELSE displayName

PathOfValid(link) ==
    ObjectGet(rocCurveArtifactData.fullArtifactPathMap, getRocCurveId(link.linkedArtifact))

ValidLinks(links) == {i \in 1..Len(links) : HoldsStruct(links[i].linkedArtifact)}

\* C8: in the path of every valid linked artifact, the name of the run, the
\* execution and the artifact is its display name when that is present and
\* non-empty, else '<Type> ID #<id>'; the id is the entity's own identifier.
C8_NameOrSynthesized ==
    RocReturned =>
        LET links == Links(rocCurveRunArtifacts)
        IN  \A i \in ValidLinks(links) :
                LET link == links[i]
                    path == PathOfValid(link)
                IN  /\ path.run.id = link.run.id
                    /\ path.run.name = NameOrTypeAndId(link.run.name, "Run ID #", link.run.id)
                    /\ path.execution.id = IdText[link.execution.id]
                    /\ path.execution.name =
                          NameOrTypeAndId(link.execution.displayName, "Execution ID #",
                                          IdText[link.execution.id])
                    /\ path.artifact.id = IdText[link.linkedArtifact.artifact.id]
                    /\ path.artifact.name =
                          NameOrTypeAndId(link.linkedArtifact.name, "Artifact ID #",
                                          IdText[link.linkedArtifact.artifact.id])

C8_Witness ==
    /\ RocReturned
    /\ LET links == Links(rocCurveRunArtifacts)
       IN  \E i \in ValidLinks(links) :
              LET path == PathOfValid(links[i])
              IN  /\ path.run = [name |-> <<"Run ID #", "4", "2">>, id |-> <<"4", "2">>]
                  /\ path.execution = [name |-> <<"e">>, id |-> <<"1", "2">>]
                  /\ path.artifact =
                        [name |-> <<"Artifact ID #", "2", "3">>, id |-> <<"2", "3">>]

KeyText(link) ==
    IdText[link.execution.id] \o <<"-">> \o IdText[link.linkedArtifact.artifact.id]

C10_NeverThrows == pc # "threw"

----------------------------------------------------------------------------
(* metricsTypeToString *)

MetricsTypeReturned == fn = "metricsTypeToString" /\ pc = "done"

IsMetricsType(value) == value.type = "number" /\ value.number \in MetricsType

\* C11: metricsTypeToString is total: every call returns a string; for each of
\* the five MetricsType values the string is non-empty and differs from the
\* label of each of the four other values; for every other argument it is the
\* empty string.
C11_LabelsTotalAndDistinct ==
    MetricsTypeReturned =>
        /\ label # Undefined
        /\ IF IsMetricsType(metricsType)
           THEN /\ label # EmptyString
                /\ \A other \in MetricsType \ {metricsType.number} :
                      metricsTypeToString(JSNumber(other)) # label
           ELSE label = EmptyString

\* The first integer past the enum is answered by the default clause.
C11_Witness ==
    /\ MetricsTypeReturned
    /\ StrictEquals(metricsType, JSNumber(MARKDOWN + 1))
    /\ label = EmptyString

====
